---- MODULE Spec2Model ----
(***************************************************************************)
(* Model of pyOptSparseDriver (pyoptsparse_driver.py): the execute method  *)
(* and the two callbacks objfunc and gradfunc it hands to the optimizer.   *)
(*                                                                         *)
(* Numbers are fixed point in quarters: the integer q stands for q/4, so 1 *)
(* is 0.25, 3 is 0.75, 4 is 1.0.  A Python int n is stored as 4*n.         *)
(* Parameter values are sequences (numpy arrays) of such numbers.          *)
(***************************************************************************)
EXTENDS Integers, Sequences, FiniteSets, TLC

VARIABLES
    parameters,      \* host: name -> [meta, vtype, low, high] of each parameter
    hostValue,       \* host: name -> current value of the parameter
    linear,          \* host: constraint -> its linear flag
    importable,      \* whether "from pyoptsparse import <optimizer>" succeeds
    pyopt_diff,      \* driver input: let the optimizer difference by itself
    pyOpt_solution,  \* driver attribute
    param_type,      \* driver attribute: name -> 'd' | 'i' | 'c'
    objs,            \* driver attribute
    nlcons,          \* driver attribute
    lin_jacs,        \* driver attribute
    pc,              \* position of execute
    param_list,      \* local of execute
    opt_prob,        \* the Optimization object being filled
    opt,             \* the optimizer instance
    sol,             \* local of execute: what the optimizer returned
    last,            \* the last callback call: its arguments and what it returned
    log,             \* calls execute made on the host and the optimizer
    discarded,       \* whether this execute began with a solution saved
    nCalls           \* callbacks made by the optimizer in this execute

vars == <<parameters, hostValue, linear, importable, pyopt_diff, pyOpt_solution,
          param_type, objs, nlcons, lin_jacs, pc, param_list, opt_prob, opt,
          sol, last, log, discarded, nCalls>>

hostVars == <<parameters, linear, importable, pyopt_diff>>

----------------------------------------------------------------------------
(* Bounds of the model *)

MaxProbes == 2     \* callbacks the optimizer makes in one execute

(* Lengths of parameter values: a scalar and a vector *)
Lengths == {1, 2}

(* The host's registered parameters (in get_parameters() order), objectives, *)
(* equality and inequality constraints, named by their pcomp_name.           *)
ParamOrder == <<"x", "y">>
Params == {ParamOrder[i] : i \in 1..Len(ParamOrder)}
ObjOrder == <<"o1">>
EqOrder == <<"c1">>
IneqOrder == <<"c2">>
ConOrder == EqOrder \o IneqOrder
Cons == {ConOrder[i] : i \in 1..Len(ConOrder)}
Options == {"MAXIT", "ACC"}

(* Kinds of the metadata entry 'values' and of the first value of a parameter *)
MetaKinds == {"absent", "list", "tuple", "ndarray", "set"}
VTypes == {"bool", "int", "float", "str"}

(* Numbers the optimizer hands out: 0.25 and 0.75 *)
Vals == {1, 3}

None == "None"
EmptyDict == [k \in {} |-> 0]

Range(s) == {s[i] : i \in 1..Len(s)}

(* '%s.out0' % pcomp_name *)
OutName(pcomp_name) == pcomp_name \o ".out0"

(* Python values *)
True == 4
False == 0
FromInt(n) == 4 * n

(* round(v) of Python 2 on a float given in quarters: to the nearest integer, *)
(* a half away from zero.                                                      *)
PyTruncate(q) == IF q >= 0 THEN q \div 4 ELSE -((-q) \div 4)

PyRound(q) == IF q >= 0 THEN (q + 2) \div 4 ELSE -((2 - q) \div 4)

(* int(round(val)) on what the optimizer hands back, a numpy array: float() *)
(* of an array of one element is that element, of a longer one a TypeError. *)
IntRound(val) ==
    IF Len(val) = 1 THEN [exc |-> None, val |-> <<FromInt(PyRound(val[1]))>>]
    ELSE [exc |-> "TypeError", val |-> val]

(* isinstance(obj, classes) for a tuple of classes: the entries are tried in *)
(* order and the first match answers; an entry that is no class or type (as  *)
(* the function numpy.array) raises TypeError when it is reached.            *)
IsClass(c) == c \in {"list", "tuple", "set", "bool", "int", "float", "ndarray"}

RECURSIVE IsInstanceFrom(_, _, _)
IsInstanceFrom(objType, classes, i) ==
    IF i > Len(classes) THEN "false"
    ELSE IF ~IsClass(classes[i]) THEN "TypeError"
    ELSE IF objType = classes[i] THEN "true"
    ELSE IsInstanceFrom(objType, classes, i + 1)

IsInstance(objType, classes) == IsInstanceFrom(objType, classes, 1)

(* bool is a subclass of int *)
IsInt(vtype) == vtype \in {"bool", "int"}

(* The (list, tuple, array, set) of line 95; array is numpy's function *)
ChoiceClasses == <<"list", "tuple", "numpy.array", "set">>

(* Lines 92-108: the kind of a parameter and its choices, or the exception *)
VarType(metadata, vtype) ==
    LET inst == IF metadata.kind = "absent" THEN "false"
                ELSE IsInstance(metadata.kind, ChoiceClasses)
    IN  IF inst = "TypeError" THEN [exc |-> "TypeError", vartype |-> None, choices |-> <<>>]
        ELSE IF inst = "true" THEN [exc |-> None, vartype |-> "d", choices |-> metadata.items]
        ELSE IF vtype = "bool" THEN [exc |-> None, vartype |-> "d", choices |-> <<True, False>>]
        ELSE IF IsInt(vtype) THEN [exc |-> None, vartype |-> "i", choices |-> <<>>]
        ELSE IF vtype = "float" THEN [exc |-> None, vartype |-> "c", choices |-> <<>>]
        ELSE [exc |-> "ValueError", vartype |-> None, choices |-> <<>>]

(* The state after __init__ (lines 58-69) and the host's registrations *)

EnumItems == <<0, 4, 8>>
Absent == [kind |-> "absent", items |-> <<>>]
Metadata == {Absent} \cup {[kind |-> k, items |-> EnumItems] : k \in MetaKinds \ {"absent"}}

(* get_low() and get_high() of each parameter *)
LowOf(name) == IF name = "x" THEN -8 ELSE 0
HighOf(name) == IF name = "x" THEN 8 ELSE 4

(* The host set-ups explored.  Each fixes the metadata, first-value type and *)
(* length of x, the type of y, the constraints' linear flags, whether the    *)
(* optimizer can be imported, and pyopt_diff.                                *)
Setup(meta, xtype, xlen, ytype, lin, imp, diff) ==
    [meta |-> meta, xtype |-> xtype, xlen |-> xlen, ytype |-> ytype,
     linear |-> lin, importable |-> imp, pyopt_diff |-> diff]

OneLinear == [c \in Cons |-> c = "c1"]

(* every metadata and type of a scalar x *)
KindSetups ==
    {Setup(m, t, 1, "float", OneLinear, TRUE, FALSE) : m \in Metadata, t \in VTypes}
(* a vector x, followed by an integer y or a y of no supported type *)
VectorSetups ==
    {Setup(Absent, t, 2, u, OneLinear, TRUE, FALSE) :
        t \in {"int", "float"}, u \in {"int", "str"}}
(* every choice of linear constraints, optimizer and differentiation *)
ProblemSetups ==
    {Setup(Absent, "int", 1, "float", lin, imp, diff) :
        lin \in [Cons -> BOOLEAN], imp \in BOOLEAN, diff \in BOOLEAN}

Setups == KindSetups \cup VectorSetups \cup ProblemSetups

NoneSol == [set |-> FALSE, dvs |-> EmptyDict]
NoProblem == [objfun |-> None, vars |-> EmptyDict, objs |-> <<>>, cons |-> EmptyDict]
NoOpt == [made |-> FALSE, options |-> {}, calls |-> 0, sens |-> None]
NoCall == [fn |-> None, dv_dict |-> EmptyDict, sets |-> EmptyDict, ret |-> EmptyDict,
           wrt |-> {}, of |-> <<>>, evals |-> 0, raised |-> None, fail |-> 0,
           escaped |-> FALSE]

Init ==
    /\ \E su \in Setups :
        /\ parameters = [n \in Params |->
                           [meta |-> IF n = "x" THEN su.meta ELSE Absent,
                            vtype |-> IF n = "x" THEN su.xtype ELSE su.ytype,
                            low |-> LowOf(n), high |-> HighOf(n)]]
        /\ hostValue = [n \in Params |->
                           [i \in 1..(IF n = "x" THEN su.xlen ELSE 1) |-> 0]]
        /\ linear = su.linear
        /\ importable = su.importable
        /\ pyopt_diff = su.pyopt_diff
    /\ pyOpt_solution = NoneSol
    /\ param_type = EmptyDict
    /\ objs = <<>>
    /\ nlcons = <<>>
    /\ lin_jacs = EmptyDict
    /\ pc = "idle"
    /\ param_list = <<>>
    /\ opt_prob = NoProblem
    /\ opt = NoOpt
    /\ sol = NoneSol
    /\ last = NoCall
    /\ log = <<>>
    /\ discarded = FALSE
    /\ nCalls = 0

----------------------------------------------------------------------------
(* Host operations used by the driver *)

(* get_constraints(linear): all constraints, or those with that flag *)
get_constraints(flag) ==
    SelectSeq(ConOrder, LAMBDA c : flag = None \/ linear[c] = (flag = "True"))

(* list_objective_targets() *)
list_objective_targets == [i \in 1..Len(ObjOrder) |-> OutName(ObjOrder[i])]

(* workflow.calc_gradient(inputs, outputs, return_format='dict') *)
calc_gradient(inputs, outputs) ==
    [o \in Range(outputs) |-> [wrt |-> inputs, of |-> o]]

(* An exception class the handlers' "except Exception" catches *)
IsException(cls) == cls \in {"TypeError", "ValueError", "ImportError", "RuntimeError"}

(* What a failing host call raises *)
HostError == "RuntimeError"

(* execute, lines 71-202, one action per stretch between host or optimizer calls *)

NParams == Len(ParamOrder)
Abort(what) == pc' = "aborted" /\ log' = Append(log, what)

KeptSolution(saved) == saved

(* Line 75: the saved solution is forgotten *)
ClearedSolution(saved) == NoneSol

(* Lines 75-84: forget the saved solution, run the model once, start the problem *)
ExecuteStart(raises) ==
    /\ pc \in {"idle", "done", "aborted"}
    /\ pyOpt_solution' = ClearedSolution(pyOpt_solution)
    /\ discarded' = (pyOpt_solution # NoneSol)
    /\ opt' = NoOpt /\ sol' = NoneSol /\ last' = NoCall /\ nCalls' = 0
    /\ param_list' = <<>>
    /\ IF raises
       THEN /\ pc' = "aborted"
            /\ log' = <<"run_iteration", "raise " \o HostError>>
            /\ opt_prob' = NoProblem
            /\ UNCHANGED param_type
       ELSE /\ pc' = "params"
            /\ log' = <<"run_iteration">>
            /\ opt_prob' = [NoProblem EXCEPT !.objfun = "objfunc"]
            /\ param_type' = EmptyDict
    /\ UNCHANGED <<hostVars, hostValue, objs, nlcons, lin_jacs>>

VarGroupBoundsSwapped(param, values, vt) ==
    [count |-> Len(values), type |-> vt.vartype,
     lower |-> param.high, upper |-> param.low,
     value |-> values, choices |-> vt.choices]

(* Lines 111-115: the variable group added for a parameter *)
VarGroup(param, values, vt) ==
    [count |-> Len(values), type |-> vt.vartype,
     lower |-> param.low, upper |-> param.high,
     value |-> values, choices |-> vt.choices]

(* Lines 85-116: one turn of the loop over get_parameters() *)
AddParameter ==
    /\ pc = "params"
    /\ LET name == ParamOrder[Len(param_list) + 1]
           param == parameters[name]
           values == hostValue[name]
           vt == VarType(param.meta, param.vtype)
       IN  IF vt.exc # None
           THEN /\ Abort("raise " \o vt.exc)
                /\ UNCHANGED <<param_type, opt_prob, param_list>>
           ELSE /\ param_type' = param_type @@ (name :> vt.vartype)
                /\ opt_prob' = [opt_prob EXCEPT
                                   !.vars = @ @@ (name :> VarGroup(param, values, vt))]
                /\ param_list' = Append(param_list, name)
                /\ pc' = IF Len(param_list) + 1 = NParams THEN "constraints" ELSE "params"
                /\ log' = Append(log, "addVarGroup")
    /\ UNCHANGED <<hostVars, discarded, hostValue, pyOpt_solution, objs, nlcons, lin_jacs,
                   opt, sol, last, nCalls>>

NoJac == [wrt |-> <<>>, of |-> None]

(* Lines 132-155: the constraint group added for con *)
ConGroup(con, lower, jacs) ==
    IF linear[con] = TRUE
    THEN [lower |-> lower, upper |-> "zeros", linear |-> TRUE, wrt |-> param_list,
          jac |-> jacs[OutName(con)]]
    ELSE [lower |-> lower, upper |-> "zeros", linear |-> FALSE, wrt |-> <<>>,
          jac |-> NoJac]

AllConstraints(cons) == cons

(* Lines 131-155: the names appended to nlcons *)
NonLinear(cons) == SelectSeq(cons, LAMBDA c : ~(linear[c] = TRUE))

(* Lines 118-158: objectives, Jacobian of the linear constraints, constraints *)
AddObjectivesAndConstraints(raises) ==
    /\ pc = "constraints"
    /\ LET lcons == get_constraints("True")
           lcon_names == [i \in 1..Len(lcons) |-> OutName(lcons[i])]
           jacs == IF Len(lcons) > 0 THEN calc_gradient(param_list, lcon_names)
                   ELSE lin_jacs
           nl == NonLinear(EqOrder) \o NonLinear(IneqOrder)
       IN  IF raises /\ Len(lcons) > 0
           THEN /\ Abort("raise " \o HostError)
                /\ opt_prob' = [opt_prob EXCEPT
                                  !.objs = [i \in 1..Len(ObjOrder) |-> OutName(ObjOrder[i])]]
                /\ UNCHANGED <<lin_jacs, objs, nlcons>>
           ELSE /\ lin_jacs' = jacs
                /\ opt_prob' = [opt_prob EXCEPT
                      !.objs = [i \in 1..Len(ObjOrder) |-> OutName(ObjOrder[i])],
                      !.cons = [n \in {OutName(c) : c \in Cons} |->
                                  LET c == CHOOSE c \in Cons : OutName(c) = n
                                  IN  ConGroup(c, IF c \in Range(EqOrder) THEN "zeros" ELSE None, jacs)]]
                /\ objs' = list_objective_targets
                /\ nlcons' = [i \in 1..Len(nl) |-> OutName(nl[i])]
                /\ pc' = "import"
                /\ log' = log \o (IF Len(lcons) > 0 THEN <<"calc_gradient">> ELSE <<>>)
    /\ UNCHANGED <<hostVars, discarded, hostValue, pyOpt_solution, param_type, param_list,
                   opt, sol, last, nCalls>>

InstantiateBeforeImportCheck ==
    /\ pc = "import"
    /\ opt' = [opt EXCEPT !.made = TRUE]
    /\ IF importable
       THEN pc' = "options" /\ log' = Append(log, "opt.new")
       ELSE Abort("raise ImportError")
    /\ UNCHANGED <<hostVars, discarded, hostValue, pyOpt_solution, param_type, objs,
                   nlcons, lin_jacs, param_list, opt_prob, sol, last, nCalls>>

(* Lines 160-170: import and instantiate the requested optimizer *)
InstantiateOptimizer ==
    /\ pc = "import"
    /\ IF importable
       THEN /\ opt' = [opt EXCEPT !.made = TRUE]
            /\ pc' = "options"
            /\ log' = Append(log, "opt.new")
       ELSE /\ Abort("raise ImportError")
            /\ UNCHANGED opt
    /\ UNCHANGED <<hostVars, discarded, hostValue, pyOpt_solution, param_type, objs, nlcons,
                   lin_jacs, param_list, opt_prob, sol, last, nCalls>>

(* Lines 172-174: hand every option to the optimizer *)
SetOptions ==
    /\ pc = "options"
    /\ opt' = [opt EXCEPT !.options = Options]
    /\ pc' = "solve"
    /\ log' = Append(log, "setOption")
    /\ UNCHANGED <<hostVars, discarded, hostValue, pyOpt_solution, param_type, objs, nlcons,
                   lin_jacs, param_list, opt_prob, sol, last, nCalls>>

SensAlwaysGradfunc(diff) == "gradfunc"

(* Lines 177-182: the sens argument of the call *)
Sens(diff) == IF diff THEN "FD" ELSE "gradfunc"

(* Lines 176-182: call the optimizer on the problem *)
CallOptimizer ==
    /\ pc = "solve"
    /\ opt' = [opt EXCEPT !.calls = @ + 1,
                          !.sens = Sens(pyopt_diff)]
    /\ pc' = "solving"
    /\ log' = Append(log, "opt.call")
    /\ UNCHANGED <<hostVars, discarded, hostValue, pyOpt_solution, param_type, objs, nlcons,
                   lin_jacs, param_list, opt_prob, sol, last, nCalls>>

(* The callbacks and the end of execute *)

(* Lines 231-233 and 193-195: an integer parameter's value is rounded *)
RoundIfInteger(vartype, val) ==
    IF vartype = "i" THEN IntRound(val) ELSE [exc |-> None, val |-> val]

(* Lines 229-235 and 191-197: the loop setting every parameter from dv_dict. *)
(* fault = i makes the host's set_parameter_by_name raise at the i-th one.   *)
RECURSIVE SetFrom(_, _, _, _)
SetFrom(dv_dict, fault, i, sets) ==
    IF i > NParams THEN [sets |-> sets, exc |-> None]
    ELSE LET name == ParamOrder[i]
             conv == RoundIfInteger(param_type[name], dv_dict[name])
         IN  IF conv.exc # None THEN [sets |-> sets, exc |-> conv.exc]
             ELSE IF fault = i THEN [sets |-> sets, exc |-> HostError]
             ELSE SetFrom(dv_dict, fault, i + 1, sets @@ (name :> conv.val))

SetParameters(dv_dict, fault) == SetFrom(dv_dict, fault, 1, EmptyDict)

(* The host's parameters after the calls of set_parameter_by_name in sets *)
AfterSets(sets) ==
    [n \in Params |-> IF n \in DOMAIN sets THEN sets[n] ELSE hostValue[n]]

(* What the optimizer may pass as dv_dict: a value of the registered count *)
(* for every variable group.                                               *)
Arrays == UNION {[1..k -> Vals] : k \in Lengths}
DVDicts ==
    {d \in [DOMAIN opt_prob.vars -> Arrays] :
        \A n \in DOMAIN d : Len(d[n]) = opt_prob.vars[n].count}

(* Host calls of objfunc after the parameters: run_iteration, then evaluate *)
(* of every objective, then of every constraint.                            *)
RunStep == NParams + 1
ObjStep(j) == NParams + 1 + j
ConStep(k) == NParams + 1 + Len(ObjOrder) + k
NSteps == NParams + 1 + Len(ObjOrder) + Len(ConOrder)

CatchesValueError(cls) == cls = "ValueError"

(* Lines 252 and 297: except Exception *)
Catches(cls) == IsException(cls)

FuncDictNonlinear(fault) ==
    LET cons == get_constraints("False")
        names == {OutName(ObjOrder[j]) : j \in {j \in 1..Len(ObjOrder) :
                                                   fault = 0 \/ fault > ObjStep(j)}}
                 \cup {OutName(cons[k]) : k \in {k \in 1..Len(cons) :
                                                   fault = 0 \/ fault > ConStep(k)}}
    IN  [n \in names |-> "array"]

(* Lines 241-248: the entries written into func_dict before the fault *)
FuncDict(fault) ==
    LET cons == get_constraints(None)
        names == {OutName(ObjOrder[j]) : j \in {j \in 1..Len(ObjOrder) :
                                                   fault = 0 \/ fault > ObjStep(j)}}
                 \cup {OutName(cons[k]) : k \in {k \in 1..Len(cons) :
                                                   fault = 0 \/ fault > ConStep(k)}}
    IN  [n \in names |-> "array"]

(* Lines 222-263 *)
objfunc(dv_dict, fault) ==
    /\ pc = "solving"
    /\ nCalls < MaxProbes
    /\ nCalls' = nCalls + 1
    /\ LET sp == SetParameters(dv_dict, fault)
           ran == sp.exc = None
           raised == IF sp.exc # None THEN sp.exc
                     ELSE IF fault >= RunStep THEN HostError ELSE None
           func_dict == IF ran THEN FuncDict(fault) ELSE EmptyDict
           fail == IF raised = None THEN 0 ELSE 1
           escaped == raised # None /\ ~Catches(raised)
       IN  /\ hostValue' = AfterSets(sp.sets)
           /\ last' = [fn |-> "objfunc", dv_dict |-> dv_dict, sets |-> sp.sets,
                       ret |-> func_dict, wrt |-> {}, of |-> <<>>,
                       evals |-> IF ran THEN 1 ELSE 0, raised |-> raised,
                       fail |-> fail, escaped |-> escaped]
           /\ pc' = IF escaped THEN "aborted" ELSE "solving"
    /\ log' = IF pc' = "aborted" THEN Append(log, "raise") ELSE log
    /\ UNCHANGED <<hostVars, discarded, pyOpt_solution, param_type, objs, nlcons, lin_jacs,
                   param_list, opt_prob, opt, sol>>

(* Lines 286-308 *)
gradfunc(dv_dict, raises) ==
    /\ pc = "solving"
    /\ opt.sens = "gradfunc"
    /\ nCalls < MaxProbes
    /\ nCalls' = nCalls + 1
    /\ LET raised == IF raises THEN HostError ELSE None
           sens_dict == IF raises THEN EmptyDict
                        ELSE calc_gradient(DOMAIN dv_dict, objs \o nlcons)
           escaped == raised # None /\ ~Catches(raised)
       IN  /\ last' = [fn |-> "gradfunc", dv_dict |-> dv_dict, sets |-> EmptyDict,
                       ret |-> sens_dict, wrt |-> DOMAIN dv_dict, of |-> objs \o nlcons,
                       evals |-> 0, raised |-> raised,
                       fail |-> IF raised = None THEN 0 ELSE 1, escaped |-> escaped]
           /\ pc' = IF escaped THEN "aborted" ELSE "solving"
    /\ log' = IF pc' = "aborted" THEN Append(log, "raise") ELSE log
    /\ UNCHANGED <<hostVars, discarded, hostValue, pyOpt_solution, param_type, objs, nlcons,
                   lin_jacs, param_list, opt_prob, opt, sol>>

(* Lines 179 and 182: the optimizer returns its solution *)
OptimizerReturns(dvs) ==
    /\ pc = "solving"
    /\ sol' = [set |-> TRUE, dvs |-> dvs]
    /\ last' = NoCall
    /\ nCalls' = 0
    /\ pc' = "writeback"
    /\ log' = Append(log, "opt.return")
    /\ UNCHANGED <<hostVars, discarded, hostValue, pyOpt_solution, param_type, objs, nlcons,
                   lin_jacs, param_list, opt_prob, opt>>

(* Lines 179 and 182: the optimizer raises *)
OptimizerRaises ==
    /\ pc = "solving"
    /\ last' = NoCall
    /\ Abort("raise " \o HostError)
    /\ UNCHANGED <<hostVars, discarded, hostValue, pyOpt_solution, param_type, objs, nlcons,
                   lin_jacs, param_list, opt_prob, opt, sol, nCalls>>

(* Lines 188-197: the optimum goes into the host's parameters *)
WriteBack(fault) ==
    /\ pc = "writeback"
    /\ LET sp == SetParameters(sol.dvs, fault)
       IN  /\ hostValue' = AfterSets(sp.sets)
           /\ IF sp.exc # None
              THEN Abort("raise " \o sp.exc)
              ELSE pc' = "rerun" /\ log' = Append(log, "set_parameters")
    /\ UNCHANGED <<hostVars, discarded, pyOpt_solution, param_type, objs, nlcons, lin_jacs,
                   param_list, opt_prob, opt, sol, last, nCalls>>

(* Lines 199-202: run the model at the optimum and save the solution *)
FinalRunIteration(raises) ==
    /\ pc = "rerun"
    /\ IF raises
       THEN /\ pc' = "aborted"
            /\ log' = log \o <<"run_iteration", "raise " \o HostError>>
            /\ UNCHANGED pyOpt_solution
       ELSE /\ pc' = "done"
            /\ log' = Append(log, "run_iteration")
            /\ pyOpt_solution' = sol
    /\ UNCHANGED <<hostVars, discarded, hostValue, param_type, objs, nlcons, lin_jacs,
                   param_list, opt_prob, opt, sol, last, nCalls>>

Next ==
    \/ \E raises \in BOOLEAN : ExecuteStart(raises)
    \/ AddParameter
    \/ \E raises \in BOOLEAN : AddObjectivesAndConstraints(raises)
    \/ InstantiateOptimizer
    \/ SetOptions
    \/ CallOptimizer
    \/ \E dv_dict \in DVDicts, fault \in 0..NSteps : objfunc(dv_dict, fault)
    \/ \E dv_dict \in DVDicts, raises \in BOOLEAN : gradfunc(dv_dict, raises)
    \/ \E dvs \in DVDicts : OptimizerReturns(dvs)
    \/ OptimizerRaises
    \/ \E fault \in 0..NParams : WriteBack(fault)
    \/ \E raises \in BOOLEAN : FinalRunIteration(raises)

Spec == Init /\ [][Next]_vars

(* Properties *)

LastOf(s) == IF Len(s) = 0 THEN None ELSE s[Len(s)]
Count(s, e) == Cardinality({i \in 1..Len(s) : s[i] = e})
ObjNames == {OutName(ObjOrder[j]) : j \in 1..Len(ObjOrder)}
ConNames == {OutName(c) : c \in Cons}

(* The integer nearest to q quarters *)
Dist(a, b) == IF a >= b THEN a - b ELSE b - a
Nearest(q) == CHOOSE r \in -3..3 : \A t \in -3..3 : Dist(4 * r, q) <= Dist(4 * t, q)

(* What the claims expect to be set for a value val the optimizer supplies *)
Expected(name, val) ==
    IF param_type[name] = "i" THEN [i \in 1..Len(val) |-> 4 * Nearest(val[i])] ELSE val

(* C1: a callback in which an exception is raised returns failure flag 1, no *)
(* exception escapes it, and the optimizer is still running afterwards, so   *)
(* further callbacks and the rest of execute can follow.                     *)
C1_ExceptionsBecomeFailureFlag ==
    (last.fn \in {"objfunc", "gradfunc"} /\ last.raised # None) =>
        /\ last.fail = 1
        /\ ~last.escaped
        /\ pc = "solving"

C1_Witness ==
    /\ last.fn = "objfunc" /\ last.raised = "TypeError" /\ last.fail = 1
    /\ pc = "solving" /\ nCalls = 2

(* C2: an objfunc call without exception returns flag 0, and whenever the    *)
(* flag is 0 the dictionary's keys are exactly the output names of every     *)
(* objective and every constraint, linear or not, which are the names        *)
(* registered with the optimizer.                                            *)
C2_SuccessfulEvaluationIsComplete ==
    last.fn = "objfunc" =>
        /\ last.raised = None => last.fail = 0
        /\ last.fail = 0 =>
               /\ DOMAIN last.ret = ObjNames \cup ConNames
               /\ DOMAIN last.ret = Range(opt_prob.objs) \cup DOMAIN opt_prob.cons

C2_Witness ==
    /\ last.fn = "objfunc" /\ last.fail = 0
    /\ \E c \in Cons : linear[c]
    /\ \E c \in Cons : ~linear[c]

(* C3, as claimed: unless a host call raises, objfunc passes to              *)
(* set_parameter_by_name, for every parameter, the nearest integers of the   *)
(* optimizer's value if its kind is 'i' and the value itself otherwise, for  *)
(* scalar and vector parameters alike; and so does the final write-back.     *)
C3_IntegerValuesAreRounded ==
    /\ (last.fn = "objfunc" /\ last.raised # HostError) =>
           \A n \in Params :
               /\ n \in DOMAIN last.sets
               /\ last.sets[n] = Expected(n, last.dv_dict[n])
    /\ (pc = "aborted" /\ sol.set) => LastOf(log) # "raise TypeError"
    /\ pc = "rerun" => \A n \in Params : hostValue[n] = Expected(n, sol.dvs[n])

(* C4: when execute has returned, every host parameter holds the optimum    *)
(* the optimizer reported (rounded for kind 'i'), and the last things        *)
(* execute did were the optimizer's return, the write-back and one host      *)
(* evaluation, in this order.                                                *)
C4_HostReflectsOptimum ==
    pc = "done" =>
        /\ \A n \in Params : hostValue[n] = Expected(n, sol.dvs[n])
        /\ Len(log) >= 3
        /\ SubSeq(log, Len(log) - 2, Len(log)) = <<"opt.return", "set_parameters", "run_iteration">>
        /\ last = NoCall

C4_Witness ==
    /\ pc = "done"
    /\ param_type["x"] = "i" /\ param_type["y"] = "c"
    /\ sol.dvs["x"] = <<3>> /\ hostValue["x"] = <<4>>
    /\ sol.dvs["y"] = <<1>> /\ hostValue["y"] = <<1>>

(* C3 for parameters of one element, where the rounding does take place *)
ScalarIntegerValuesAreRounded ==
    (last.fn = "objfunc") =>
        \A n \in DOMAIN last.sets :
            Len(last.dv_dict[n]) = 1 => last.sets[n] = Expected(n, last.dv_dict[n])

ConfigurationError == {"raise ValueError", "raise ImportError"}

(* C5: when execute has stopped on a configuration error (a value of an     *)
(* unsupported type, an optimizer that cannot be imported), no optimizer     *)
(* was instantiated or called, no option was set, no callback was called.    *)
C5_ConfigurationErrorsStopBeforeSolver ==
    (pc = "aborted" /\ LastOf(log) \in ConfigurationError) =>
        /\ ~opt.made
        /\ opt.calls = 0
        /\ opt.options = {}
        /\ opt.sens = None
        /\ last = NoCall /\ nCalls = 0
        /\ ~sol.set
        /\ pyOpt_solution = NoneSol

C5_Witness ==
    /\ pc = "aborted" /\ LastOf(log) = "raise ImportError"
    /\ Len(param_list) = NParams
    /\ DOMAIN opt_prob.cons = ConNames

(* The kind the claims give a parameter *)
ClaimedKind(param) ==
    IF param.meta.kind \in {"list", "tuple", "ndarray", "set"} THEN "d"
    ELSE IF param.vtype = "bool" THEN "d"
    ELSE IF param.vtype = "int" THEN "i"
    ELSE IF param.vtype = "float" THEN "c"
    ELSE "ValueError"

(* The loop over the parameters has dealt with the i-th one *)
Reached(i) ==
    /\ opt_prob.objfun # None
    /\ \/ Len(param_list) >= i
       \/ Len(param_list) = i - 1 /\ pc = "aborted"

(* C6, as claimed: every parameter the loop has dealt with got the kind     *)
(* 'd' if its metadata has 'values' as a list, tuple, array or set or its    *)
(* value is a bool, 'i' if an int, 'c' if a float, recorded in param_type    *)
(* and registered alike; any other type stopped execute with a ValueError.   *)
C6_KindOfEveryParameter ==
    \A i \in 1..NParams :
        Reached(i) =>
            LET name == ParamOrder[i]
                kind == ClaimedKind(parameters[name])
            IN  IF kind = "ValueError"
                THEN /\ pc = "aborted" /\ Len(param_list) = i - 1
                     /\ LastOf(log) = "raise ValueError"
                ELSE /\ Len(param_list) >= i
                     /\ param_type[name] = kind
                     /\ opt_prob.vars[name].type = kind

(* C6 for metadata whose 'values' is absent, a list or a tuple *)
KindOfListAndTupleParameters ==
    \A i \in 1..NParams :
        (Reached(i) /\ parameters[ParamOrder[i]].meta.kind \in {"absent", "list", "tuple"}) =>
            LET name == ParamOrder[i]
                kind == ClaimedKind(parameters[name])
            IN  IF kind = "ValueError"
                THEN /\ pc = "aborted" /\ Len(param_list) = i - 1
                     /\ LastOf(log) = "raise ValueError"
                ELSE /\ Len(param_list) >= i
                     /\ param_type[name] = kind
                     /\ opt_prob.vars[name].type = kind

SetupPcs == {"params", "constraints", "import", "options", "solve"}

(* C7: every variable group registered carries the host's data: its bounds  *)
(* are the parameter's, a float is continuous, a bool without choice set is  *)
(* discrete with choices (True, False), a parameter with a choice set is     *)
(* discrete with exactly that set, and count and initial value are the       *)
(* length and contents of the parameter's value.                             *)
C7_RegisteredAsTheHostHasIt ==
    pc \in SetupPcs =>
        \A n \in DOMAIN opt_prob.vars :
            LET v == opt_prob.vars[n]
                p == parameters[n]
            IN  /\ v.lower = p.low /\ v.upper = p.high
                /\ (p.meta.kind = "absent" /\ p.vtype = "float") => v.type = "c"
                /\ (p.meta.kind = "absent" /\ p.vtype = "bool") =>
                       v.type = "d" /\ v.choices = <<True, False>>
                /\ p.meta.kind # "absent" => v.type = "d" /\ v.choices = p.meta.items
                /\ v.count = Len(hostValue[n])
                /\ v.value = hostValue[n]

C7_Witness ==
    /\ pc = "constraints"
    /\ opt_prob.vars["x"].type = "d" /\ opt_prob.vars["x"].choices = EnumItems
    /\ opt_prob.vars["x"].value = <<3>>
    /\ opt_prob.vars["y"].type = "c"
    /\ opt_prob.vars["y"].lower = 0 /\ opt_prob.vars["y"].upper = 4

(* C8: once the constraints are added, every constraint flagged linear is   *)
(* registered as linear with the Jacobian the one calc_gradient call of      *)
(* execute returned for it and is not in nlcons, every other constraint is   *)
(* registered without Jacobian and is in nlcons; execute calls calc_gradient *)
(* once if some constraint is linear and never otherwise, before the         *)
(* optimizer is called; and gradfunc asks for the gradients of the           *)
(* objectives and nlcons, with respect to the keys of dv_dict.               *)
C8_LinearAndNonlinearConstraints ==
    /\ DOMAIN opt_prob.cons = ConNames =>
        /\ \A c \in Cons :
             LET g == opt_prob.cons[OutName(c)]
             IN  IF linear[c]
                 THEN /\ g.linear
                      /\ g.jac = [wrt |-> param_list, of |-> OutName(c)]
                      /\ g.jac = lin_jacs[OutName(c)]
                      /\ OutName(c) \notin Range(nlcons)
                 ELSE /\ ~g.linear
                      /\ g.jac = NoJac
                      /\ OutName(c) \in Range(nlcons)
        /\ Count(log, "calc_gradient") = IF \E c \in Cons : linear[c] THEN 1 ELSE 0
        /\ \A i, j \in 1..Len(log) : (log[i] = "calc_gradient" /\ log[j] = "opt.call") => i < j
    /\ last.fn = "gradfunc" =>
        /\ Range(last.of) = ObjNames \cup {OutName(c) : c \in {d \in Cons : ~linear[d]}}
        /\ Len(last.of) = Cardinality(Range(last.of))
        /\ last.wrt = DOMAIN last.dv_dict
        /\ last.wrt = Params

C8_Witness ==
    /\ last.fn = "gradfunc" /\ last.fail = 0
    /\ linear["c1"] /\ ~linear["c2"]
    /\ last.of = <<"o1.out0", "c2.out0">>

(* The calls execute makes when it runs to its end *)
CompleteLog ==
    <<"run_iteration">> \o [i \in 1..NParams |-> "addVarGroup"]
    \o (IF \E c \in Cons : linear[c] THEN <<"calc_gradient">> ELSE <<>>)
    \o <<"opt.new", "setOption", "opt.call", "opt.return", "set_parameters", "run_iteration">>

(* C9: an execute that returns has run the model once, built the problem,    *)
(* set the options, called the optimizer once, written the optimum back and  *)
(* run the model once more, in this order; the optimizer is called with      *)
(* every option set, with gradfunc when pyopt_diff is False and with finite  *)
(* differences otherwise, and then gradfunc is never called; an objfunc call *)
(* runs the model once if it has set every parameter and not at all if not.  *)
C9_OneRunPerExecute ==
    /\ pc = "done" => log = CompleteLog /\ opt.calls = 1
    /\ opt.calls <= 1
    /\ opt.calls = 1 =>
        /\ opt.made /\ opt.options = Options
        /\ opt.sens = IF pyopt_diff THEN "FD" ELSE "gradfunc"
    /\ last.fn # None => opt.calls = 1
    /\ last.fn = "gradfunc" => ~pyopt_diff
    /\ last.fn = "objfunc" => last.evals = IF DOMAIN last.sets = Params THEN 1 ELSE 0

C9_Witness ==
    /\ pc = "done" /\ pyopt_diff /\ opt.sens = "FD"
    /\ \E c \in Cons : linear[c]

(* C10: pyOpt_solution is None while execute runs and after it has stopped   *)
(* on an exception, also when the execute before had saved a solution; it is *)
(* set only when execute has returned, to the solution of that execute.      *)
C10_SolutionOnlyAfterCompleteRun ==
    /\ pc # "done" => pyOpt_solution = NoneSol
    /\ pc = "done" => pyOpt_solution = sol /\ sol.set

C10_Witness ==
    /\ pc = "aborted" /\ discarded
    /\ pyOpt_solution = NoneSol

----------------------------------------------------------------------------
====
